---- MODULE Spec2Model ----
(***************************************************************************)
(* Model of collector/collector.go: the CollectorService pipeline.         *)
(*                                                                         *)
(*   HTTPCollector / kafkaRoutine --SpansProcessingChan--> queueRoutine    *)
(*   queueRoutine --DocumentQueueChan--> documentRoutine --> store         *)
(*                                                                         *)
(* Both channels are unbuffered (make(chan T)): a send completes only in   *)
(* a rendezvous with a receiver standing at its select.                    *)
(***************************************************************************)
EXTENDS Integers, Sequences, FiniteSets, TLC

\* ---------------------------------------------------------------- bounds
\* Largest configured setting.Settings.Elasticsearch.Bulk explored.
MaxThreshold == 2
\* Total number of spans the intake paths decode, over all payloads.
MaxSpans == 3
\* Number of queue messages consumed.
MaxMessages == 2
\* Number of HTTP requests served.
MaxRequests == 2
\* The clock advances in steps of TickSeconds seconds up to MaxTime.
TickSeconds == 70
MaxTime == 70

\* ------------------------------------------------------- program constants
\* gocache.New(60*time.Second, 60*time.Second): default expiration, seconds.
CacheTTL == 60

\* ------------------------------------------------------------- data model
\* (IndexName, TypeName) pairs of the documents spans assemble to.  The first
\* two differ and share the concatenation "abc".
DocNames == {<<"a", "bc">>, <<"ab", "c">>, <<"a", "c">>}

\* A span is opaque to the collector: it is known by its number alone.
\* *[]trace.Span values: a nil pointer, or a pointer to a slice.
NilSpans == [nil |-> TRUE, elems |-> << >>]
SpansPtr(s) == [nil |-> FALSE, elems |-> s]

\* The ids of a sequence of documents.
Ids(docs) == [i \in 1..Len(docs) |-> docs[i].id]

RECURSIVE SeqToSet(_)
SeqToSet(s) == IF s = << >> THEN {} ELSE {Head(s)} \cup SeqToSet(Tail(s))

NoDoc == [id |-> 0, IndexName |-> "", TypeName |-> ""]

VARIABLES
    threshold,      \* setting.Settings.Elasticsearch.Bulk
    cancelled,      \* ctx.Done() is closed
    procState,      \* "up", "fatal" (logrus.Fatal) or "panic" (nil dereference)
    now,            \* wall clock, seconds
    runPc, runErr,  \* CollectorService.Run
    kafkaPc, kafkaMsg, msgCount, committed,   \* kafkaRoutine
    queuePc, queueSpans, queueIdx, queueDoc, queueCopy, \* queueRoutine
    DocumentQueue, Mux,                                 \* service fields
    docPc, documents, docIdx, bulkRequest, Cache,       \* documentRoutine
    http,                                               \* HTTPCollector calls
    spanCount, docCount,                                \* spans decoded, documents assembled
    received, flushed, provOutcome, storeCalls, lastBulk,  \* history
    bulkCalls                                           \* bulkRequest.Do calls made

ctlVars == <<threshold, cancelled, procState, now, runPc, runErr>>
kafkaVars == <<kafkaPc, kafkaMsg, msgCount, committed>>
queueVars == <<queuePc, queueSpans, queueIdx, queueDoc, queueCopy, DocumentQueue, Mux>>
docVars == <<docPc, documents, docIdx, bulkRequest, Cache>>
histVars == <<received, flushed, provOutcome, storeCalls, lastBulk, bulkCalls>>
vars == <<ctlVars, kafkaVars, queueVars, docVars, http, spanCount, docCount, histVars>>

Up == procState = "up"

\* Span sequences a payload may decode to (trace.ToSpans): the next n spans,
\* for every n the bound on the number of spans leaves.
Payloads == {[i \in 1..n |-> spanCount + i] : n \in 0..(MaxSpans - spanCount)}

\* What span.AssembleDocument() can return: an error, or a document.
AssembleResults ==
    {[err |-> TRUE, IndexName |-> "", TypeName |-> ""]}
    \cup {[err |-> FALSE, IndexName |-> n[1], TypeName |-> n[2]] : n \in DocNames}

NoMsg == [id |-> 0, ok |-> FALSE, spans |-> NilSpans]
\* An HTTPCollector call: where it stands, its decoded spans, the body it
\* wrote, and (history) whether it took the default branch while queueRoutine
\* was blocked sending a batch.
NoRequest == [pc |-> "none", spans |-> NilSpans, response |-> "", duringFlush |-> FALSE]

\* NewCollectorService, and the configuration read from setting.Settings.
Init ==
    /\ threshold \in 0..MaxThreshold
    /\ cancelled = FALSE
    /\ procState = "up"
    /\ now = 0
    /\ runPc = "init" /\ runErr = ""
    /\ kafkaPc = "notstarted" /\ kafkaMsg = NoMsg /\ msgCount = 0
    /\ committed = {}
    /\ queuePc = "notstarted" /\ queueSpans = NilSpans /\ queueIdx = 0
    /\ queueDoc = NoDoc /\ queueCopy = << >>
    /\ DocumentQueue = << >> /\ Mux = FALSE
    /\ docPc = "notstarted" /\ documents = << >> /\ docIdx = 0
    /\ bulkRequest = << >> /\ Cache = {}
    /\ http = [r \in 1..MaxRequests |-> NoRequest]
    /\ spanCount = 0 /\ docCount = 0
    /\ received = {} /\ flushed = << >>
    /\ provOutcome = {} /\ storeCalls = << >> /\ lastBulk = "none"
    /\ bulkCalls = 0

\* ------------------------------------------------------------ environment
\* The caller of Run cancels ctx.
Cancel ==
    /\ Up /\ ~cancelled
    /\ cancelled' = TRUE
    /\ UNCHANGED <<threshold, procState, now, runPc, runErr, kafkaVars, queueVars,
                   docVars, http, spanCount, docCount, histVars>>

\* Time passes.  The cache's janitor (cleanup interval 60 s) deletes the
\* entries past their expiration, which Get no longer finds anyway.  The call
\* log keeps the store calls of the last CacheTTL seconds: the calls that
\* share a TTL window with a call made from now on.
Tick ==
    /\ Up /\ now < MaxTime
    /\ now' = now + TickSeconds
    /\ Cache' = {e \in Cache : ~(now' > e.exp)}
    /\ storeCalls' = SelectSeq(storeCalls, LAMBDA c : c.at + CacheTTL >= now')
    /\ UNCHANGED <<threshold, cancelled, procState, runPc, runErr, kafkaVars, queueVars,
                   docPc, documents, docIdx, bulkRequest, http, spanCount, docCount,
                   received, flushed, provOutcome, lastBulk, bulkCalls>>

\* ---------------------------------------------------- CollectorService.Run
\* group.Go(func() error { return service.queueRoutine(ctx) })
RunGoQueueRoutine ==
    /\ Up /\ runPc = "init"
    /\ runPc' = "go"
    /\ queuePc' = "select"
    /\ UNCHANGED <<threshold, cancelled, procState, now, runErr, kafkaVars,
                   queueSpans, queueIdx, queueDoc, queueCopy, DocumentQueue, Mux,
                   docVars, http, spanCount, docCount, histVars>>

\* group.Go(func() error { return service.documentRoutine(ctx) })
RunGoDocumentRoutine ==
    /\ Up /\ runPc = "go"
    /\ runPc' = "wait"
    /\ docPc' = "select"
    /\ UNCHANGED <<threshold, cancelled, procState, now, runErr, kafkaVars, queueVars,
                   documents, docIdx, bulkRequest, Cache, http, spanCount, docCount,
                   histVars>>

\* err := group.Wait(); return err.  Wait returns once every function
\* started with group.Go has returned.
RunWaitReturn ==
    /\ Up /\ runPc = "wait"
    /\ queuePc = "returned" /\ docPc = "returned"
    /\ runPc' = "returned"
    /\ runErr' = "context canceled"
    /\ UNCHANGED <<threshold, cancelled, procState, now, kafkaVars, queueVars,
                   docVars, http, spanCount, docCount, histVars>>

\* ----------------------------------------------------- SpansProcessingChan
\* A send on the unbuffered span channel completes only when queueRoutine
\* stands at its select; the receiver then calls assignSpansToQueue(spans).
SpansReceiverReady == queuePc = "select"

DeliverSpans(spans, tag) ==
    /\ SpansReceiverReady
    /\ queuePc' = "range"
    /\ queueSpans' = spans
    /\ queueIdx' = 1
    /\ received' = received \cup {tag}
    /\ UNCHANGED <<queueDoc, queueCopy, DocumentQueue, Mux>>

\* ------------------------------------------------------------ kafkaRoutine
\* Lines 61-92: configure and join the consumer group; a join error ends the
\* process in logrus.Fatal.  Run does not start this routine.
KafkaJoin ==
    /\ Up /\ kafkaPc = "notstarted"
    /\ \E joined \in BOOLEAN :
         IF joined
         THEN kafkaPc' = "select" /\ procState' = procState
         ELSE kafkaPc' = kafkaPc /\ procState' = "fatal"
    /\ UNCHANGED <<threshold, cancelled, now, runPc, runErr, kafkaMsg, msgCount,
                   committed, queueVars, docVars, http, spanCount, docCount, histVars>>

\* What trace.ToSpans hands back beside a non-nil error: the code keeps and
\* sends it whatever it is.
FailedSpans == {NilSpans, SpansPtr(<< >>)}

\* case message := <-Service.Consumer.Messages(): decode, log on error.
KafkaReceive ==
    /\ Up /\ kafkaPc = "select"
    /\ msgCount < MaxMessages
    /\ \E ok \in BOOLEAN :
         \E spans \in (IF ok THEN {SpansPtr(s) : s \in Payloads} ELSE FailedSpans) :
            /\ kafkaMsg' = [id |-> msgCount + 1, ok |-> ok, spans |-> spans]
            /\ spanCount' = spanCount + Len(spans.elems)
    /\ msgCount' = msgCount + 1
    /\ kafkaPc' = "send"
    /\ UNCHANGED <<ctlVars, committed, queueVars, docVars, http, docCount, histVars>>

\* Service.SpansProcessingChan <- spans (blocking)
KafkaSend ==
    /\ Up /\ kafkaPc = "send"
    /\ DeliverSpans(kafkaMsg.spans, [src |-> "kafka", id |-> kafkaMsg.id, ok |-> kafkaMsg.ok])
    /\ kafkaPc' = "commit"
    /\ UNCHANGED <<ctlVars, kafkaMsg, msgCount, committed, docVars, http, spanCount,
                   docCount, flushed, provOutcome, storeCalls, lastBulk, bulkCalls>>

\* A commit issued without waiting for the send to complete.
CommitBeforeSent == kafkaPc \in {"send", "commit"}

\* Line 113 is reached once the send of line 112 has completed.
AtCommit == kafkaPc = "commit"

\* Service.Consumer.CommitUpto(message)
KafkaCommit ==
    /\ Up /\ AtCommit
    /\ committed' = committed \cup {kafkaMsg.id}
    /\ kafkaMsg' = NoMsg
    /\ kafkaPc' = "select"
    /\ UNCHANGED <<ctlVars, msgCount, queueVars, docVars, http, spanCount, docCount,
                   histVars>>

\* case <-ctx.Done(): return ctx.Err()
KafkaDone ==
    /\ Up /\ kafkaPc = "select" /\ cancelled
    /\ kafkaPc' = "returned"
    /\ UNCHANGED <<ctlVars, kafkaMsg, msgCount, committed, queueVars, docVars, http,
                   spanCount, docCount, histVars>>

\* ----------------------------------------------------------- HTTPCollector
\* A handler that writes the error body and goes on to the select with the
\* spans ToSpans handed back.
HTTPDecodeErrorNoReturn(r) ==
    /\ http' = [http EXCEPT ![r] = [pc |-> "select", spans |-> NilSpans,
                                    response |-> "error trace log",
                                    duringFlush |-> FALSE]]
    /\ spanCount' = spanCount

\* Lines 262-271: err != nil: log, write {"msg": "error trace log"}, return.
HTTPDecodeError(r) ==
    /\ http' = [http EXCEPT ![r] = [pc |-> "done", spans |-> NilSpans,
                                    response |-> "error trace log",
                                    duringFlush |-> FALSE]]
    /\ spanCount' = spanCount

\* Lines 254-271: read the body, decode; on error answer and return.
HTTPDecode(r) ==
    /\ Up /\ http[r].pc = "none"
    /\ \/ HTTPDecodeError(r)
       \/ \E spans \in Payloads :
            /\ http' = [http EXCEPT ![r] = [pc |-> "select", spans |-> SpansPtr(spans),
                                            response |-> "", duringFlush |-> FALSE]]
            /\ spanCount' = spanCount + Len(spans)
    /\ UNCHANGED <<ctlVars, kafkaVars, queueVars, docVars, docCount, histVars>>

\* case Service.SpansProcessingChan <- spans: the receiver is parked.
HTTPSend(r) ==
    /\ DeliverSpans(http[r].spans, [src |-> "http", id |-> r, ok |-> TRUE])
    /\ http' = [http EXCEPT ![r] = [pc |-> "done", spans |-> NilSpans,
                                    response |-> "SpansProcessingChan <- spans",
                                    duringFlush |-> FALSE]]

\* A select without its default branch: the send blocks until received.
HTTPNoDefault(r) ==
    /\ FALSE
    /\ UNCHANGED <<http, queueVars, received>>

\* default: no receiver is parked on the channel at this instant.  A receiver
\* that has reached its select but is not yet parked does not count.
HTTPDefault(r) ==
    /\ http' = [http EXCEPT ![r] = [pc |-> "done", spans |-> NilSpans,
                                    response |-> "default", duringFlush |-> (queuePc = "send")]]
    /\ UNCHANGED <<queueVars, received>>

\* Lines 273-278: the select with a default branch.
HTTPSelect(r) ==
    /\ Up /\ http[r].pc = "select"
    /\ (HTTPSend(r) \/ HTTPDefault(r))
    /\ UNCHANGED <<ctlVars, kafkaVars, docVars, spanCount, docCount,
                   flushed, provOutcome, storeCalls, lastBulk, bulkCalls>>

\* ------------------------------------------------------------ queueRoutine
\* for _, span := range *spans { doc, err := span.AssembleDocument() ... }
\* Dereferencing a nil *[]trace.Span panics and takes the process down.
QueueRange ==
    /\ Up /\ queuePc = "range"
    /\ IF queueSpans.nil
       THEN /\ procState' = "panic"
            /\ UNCHANGED <<queueVars, docCount>>
       ELSE /\ procState' = procState
            /\ IF queueIdx > Len(queueSpans.elems)
               THEN \* assignSpansToQueue returns; back to the select
                    /\ queuePc' = "select" /\ queueSpans' = NilSpans /\ queueIdx' = 0
                    /\ UNCHANGED <<queueDoc, queueCopy, DocumentQueue, Mux, docCount>>
               ELSE \E res \in AssembleResults :
                    IF res.err
                    THEN \* err != nil: log, continue
                         /\ queueIdx' = queueIdx + 1
                         /\ UNCHANGED <<queuePc, queueSpans, queueDoc, queueCopy,
                                        DocumentQueue, Mux, docCount>>
                    ELSE LET doc == [id |-> docCount + 1,
                                     IndexName |-> res.IndexName,
                                     TypeName |-> res.TypeName]
                         IN /\ queueDoc' = doc
                            /\ docCount' = docCount + 1
                            /\ queuePc' = "lock"
                            /\ UNCHANGED <<queueSpans, queueIdx, queueCopy,
                                           DocumentQueue, Mux>>
    /\ UNCHANGED <<threshold, cancelled, now, runPc, runErr, kafkaVars, docVars, http,
                   spanCount, received, flushed, provOutcome, storeCalls, lastBulk, bulkCalls>>

\* A test that lets the buffer take one document more.
AtOrBelowThreshold(queue) == Len(queue) <= threshold

\* The test of line 136.
BelowThreshold(queue) == Len(queue) < threshold

\* An accumulator that goes on without the mutex.
MuxLockSkipped == FALSE

\* service.Mux.Lock() returns with the mutex held.
MuxLocked == TRUE

\* An accumulator that puts the newest document first.
PrependDoc(queue, doc) == <<doc>> \o queue

\* append(service.DocumentQueue, *doc)
AppendDoc(queue, doc) == Append(queue, doc)

\* service.Mux.Lock(); if len(service.DocumentQueue) < Bulk { append }
QueueLockAppend ==
    /\ Up /\ queuePc = "lock" /\ ~Mux
    /\ BelowThreshold(DocumentQueue)
    /\ Mux' = MuxLocked
    /\ DocumentQueue' = AppendDoc(DocumentQueue, queueDoc)
    /\ queuePc' = "unlock"
    /\ UNCHANGED <<ctlVars, kafkaVars, queueSpans, queueIdx, queueDoc, queueCopy,
                   docVars, http, spanCount, docCount, histVars>>

\* service.Mux.Lock(); else { queue := make(...); copy(queue, service.DocumentQueue)
QueueLockCopy ==
    /\ Up /\ queuePc = "lock" /\ ~Mux
    /\ ~BelowThreshold(DocumentQueue)
    /\ Mux' = MuxLocked
    /\ queueCopy' = DocumentQueue
    /\ queuePc' = "send"
    /\ UNCHANGED <<ctlVars, kafkaVars, queueSpans, queueIdx, queueDoc, DocumentQueue,
                   docVars, http, spanCount, docCount, histVars>>

\* A send on the unbuffered batch channel completes only when documentRoutine
\* stands at its select.
BatchReceiverReady == docPc = "select"

\* service.DocumentQueueChan <- &queue (blocking), received by
\* case queue := <-Service.DocumentQueueChan: bulkSaveDocument(queue)
QueueSendBatch ==
    /\ Up /\ queuePc = "send"
    /\ BatchReceiverReady
    /\ docPc' = "bulk"
    /\ documents' = queueCopy
    /\ docIdx' = 1
    /\ bulkRequest' = << >>
    /\ flushed' = Append(flushed, Ids(queueCopy))
    /\ queuePc' = "reset"
    /\ UNCHANGED <<ctlVars, kafkaVars, queueSpans, queueIdx, queueDoc, queueCopy,
                   DocumentQueue, Mux, Cache, http, spanCount, docCount, received,
                   provOutcome, storeCalls, lastBulk, bulkCalls>>

\* An accumulator that starts the next buffer with the document that
\* triggered the flush.
AfterFlushKeepsDoc(doc) == <<doc>>

\* The buffer after a flush: []trace.Document{}, whatever the document at hand.
AfterFlush(doc) == << >>

\* service.DocumentQueue = []trace.Document{}
QueueReset ==
    /\ Up /\ queuePc = "reset"
    /\ DocumentQueue' = AfterFlush(queueDoc)
    /\ queueCopy' = << >>
    /\ queuePc' = "unlock"
    /\ UNCHANGED <<ctlVars, kafkaVars, queueSpans, queueIdx, queueDoc, Mux,
                   docVars, http, spanCount, docCount, histVars>>

\* service.Mux.Unlock(); next iteration of the range loop
QueueUnlock ==
    /\ Up /\ queuePc = "unlock"
    /\ Mux' = FALSE
    /\ queueDoc' = NoDoc
    /\ queueIdx' = queueIdx + 1
    /\ queuePc' = "range"
    /\ UNCHANGED <<ctlVars, kafkaVars, queueSpans, queueCopy, DocumentQueue,
                   docVars, http, spanCount, docCount, histVars>>

\* case <-ctx.Done(): return ctx.Err()
QueueDone ==
    /\ Up /\ queuePc = "select" /\ cancelled
    /\ queuePc' = "returned"
    /\ UNCHANGED <<ctlVars, kafkaVars, queueSpans, queueIdx, queueDoc, queueCopy,
                   DocumentQueue, Mux, docVars, http, spanCount, docCount, histVars>>

\* --------------------------------------------------------- documentRoutine
\* cacheKey := document.IndexName + document.TypeName
CacheKey(document) == document.IndexName \o document.TypeName

\* service.Cache.Get(cacheKey): found unless absent or past its expiration.
CacheGet(cacheKey) == \E e \in Cache : e.key = cacheKey /\ ~(now > e.exp)

\* A persister that never marks the key present.
CacheSetForgets(cacheKey) == Cache

\* service.Cache.Set(cacheKey, true, gocache.DefaultExpiration)
CacheSet(cacheKey) ==
    {e \in Cache : e.key # cacheKey} \cup {[key |-> cacheKey, exp |-> now + CacheTTL]}

\* The ways the provisioning of lines 170-198 can end for one document.
ProvisionOutcomes ==
    {"exists error", "exists", "create error", "create not acknowledged", "created"}

\* A persister that does not look at createIndex.Acknowledged.
PassedIgnoresAck(outcome) ==
    outcome \in {"cache hit", "exists", "created", "create not acknowledged"}

\* The outcomes after which the code goes on to line 199 / 202.
Passed(outcome) == outcome \in {"cache hit", "exists", "created"}

\* A persister that marks the key present before looking at the answers.
ReachesCacheSetAlways(outcome) == outcome # "cache hit"

\* Line 199 is reached after a cache miss whose provisioning passed: each of
\* the three continue statements (176, 189, 196) skips it.
ReachesCacheSet(outcome) == outcome # "cache hit" /\ Passed(outcome)

\* The store calls lines 170-182 issue on the way to an outcome, as records
\* of the call log: IndexExists always, CreateIndex after "no such index".
StoreCallsFor(document, outcome) ==
    LET call(op) == [op |-> op, index |-> document.IndexName, type |-> document.TypeName,
                     at |-> now, passed |-> Passed(outcome)]
    IN IF outcome \in {"exists error", "exists"}
       THEN <<call("IndexExists")>>
       ELSE <<call("IndexExists"), call("CreateIndex")>>

\* One iteration of for _, document := range *documents (lines 166-208).
DocProvision ==
    /\ Up /\ docPc = "bulk" /\ docIdx <= Len(documents)
    /\ LET document == documents[docIdx]
           cacheKey == CacheKey(document)
       IN \E outcome \in (IF CacheGet(cacheKey) THEN {"cache hit"} ELSE ProvisionOutcomes) :
            /\ storeCalls' = IF outcome = "cache hit" THEN storeCalls
                             ELSE storeCalls \o StoreCallsFor(document, outcome)
            /\ Cache' = IF ReachesCacheSet(outcome)
                        THEN CacheSet(cacheKey) ELSE Cache
            /\ bulkRequest' = IF Passed(outcome)
                              THEN Append(bulkRequest, document) ELSE bulkRequest
            /\ provOutcome' = provOutcome \cup {<<document.id, outcome>>}
    /\ docIdx' = docIdx + 1
    /\ UNCHANGED <<ctlVars, kafkaVars, queueVars, docPc, documents, http, spanCount,
                   docCount, received, flushed, lastBulk, bulkCalls>>

\* How bulkRequest.Do(ctx) can end: a transport error, a nil response, a
\* response whose items all report 201, a response with an item whose status
\* is not 201 (which takes an item in the request).
BulkOutcomes(request) ==
    {"error", "nil response", "indexed"}
    \cup (IF Len(request) > 0 THEN {"item failed"} ELSE {})

\* A worker that gives up after a bulk call that failed.
AfterBulkStopOnFailure(outcome) ==
    IF outcome \in {"error", "nil response", "item failed"} THEN "returned" ELSE "select"

\* A worker that calls bulkRequest.Do again after a call that failed.
AfterBulkRetryOnFailure(outcome) ==
    IF outcome \in {"error", "nil response"} THEN "bulk" ELSE "select"

\* Where bulkSaveDocument leaves the worker, whatever the bulk outcome: it
\* returns (lines 216, 223, 239) into the for/select loop of line 241.
AfterBulk(outcome) == "select"

\* bulkResponse, err := bulkRequest.Do(ctx) and the inspection of the
\* response (lines 210-239).
DocBulkDo ==
    /\ Up /\ docPc = "bulk" /\ docIdx > Len(documents)
    /\ \E outcome \in BulkOutcomes(bulkRequest) :
         /\ lastBulk' = outcome
         /\ docPc' = AfterBulk(outcome)
    /\ documents' = << >> /\ docIdx' = 0 /\ bulkRequest' = << >>
    /\ provOutcome' = {}
    /\ bulkCalls' = bulkCalls + 1
    /\ UNCHANGED <<ctlVars, kafkaVars, queueVars, Cache, http, spanCount, docCount,
                   received, flushed, storeCalls>>

\* case <-ctx.Done(): return ctx.Err()
DocDone ==
    /\ Up /\ docPc = "select" /\ cancelled
    /\ docPc' = "returned"
    /\ UNCHANGED <<ctlVars, kafkaVars, queueVars, documents, docIdx, bulkRequest, Cache,
                   http, spanCount, docCount, histVars>>

\* ----------------------------------------------------------- specification
\* The environment, Run and the two workers Run starts.
Pipeline ==
    \/ Cancel
    \/ Tick
    \/ RunGoQueueRoutine
    \/ RunGoDocumentRoutine
    \/ RunWaitReturn
    \/ QueueRange
    \/ QueueLockAppend
    \/ QueueLockCopy
    \/ QueueSendBatch
    \/ QueueReset
    \/ QueueUnlock
    \/ QueueDone
    \/ DocProvision
    \/ DocBulkDo
    \/ DocDone

\* The service as Run builds it, fed by HTTPCollector.
Next ==
    \/ Pipeline
    \/ \E r \in 1..MaxRequests : HTTPDecode(r)
    \/ \E r \in 1..MaxRequests : HTTPSelect(r)

Spec == Init /\ [][Next]_vars

\* The service with kafkaRoutine called beside Run, fed by the queue consumer.
KafkaNext ==
    \/ Pipeline
    \/ KafkaJoin
    \/ KafkaReceive
    \/ KafkaSend
    \/ KafkaCommit
    \/ KafkaDone

KafkaSpec == Init /\ [][KafkaNext]_vars

\* The Go scheduler runs every goroutine that can take a step: the two
\* workers, Run itself and an HTTP handler at its select.  Requests, time and
\* cancellation come from outside and are not forced.
FairSpec ==
    /\ Spec
    /\ WF_vars(RunGoQueueRoutine) /\ WF_vars(RunGoDocumentRoutine) /\ WF_vars(RunWaitReturn)
    /\ WF_vars(QueueRange) /\ WF_vars(QueueLockAppend) /\ WF_vars(QueueLockCopy)
    /\ WF_vars(QueueSendBatch) /\ WF_vars(QueueReset) /\ WF_vars(QueueUnlock)
    /\ WF_vars(QueueDone)
    /\ WF_vars(DocProvision) /\ WF_vars(DocBulkDo) /\ WF_vars(DocDone)
    /\ \A r \in 1..MaxRequests : WF_vars(HTTPSelect(r))

\* The service serving one HTTPCollector call, whose body may hold every
\* span there is, under the same scheduling.
SingleRequestNext ==
    \/ Pipeline
    \/ HTTPDecode(1)
    \/ HTTPSelect(1)

SingleRequestFairSpec ==
    /\ Init /\ [][SingleRequestNext]_vars
    /\ WF_vars(RunGoQueueRoutine) /\ WF_vars(RunGoDocumentRoutine) /\ WF_vars(RunWaitReturn)
    /\ WF_vars(QueueRange) /\ WF_vars(QueueLockAppend) /\ WF_vars(QueueLockCopy)
    /\ WF_vars(QueueSendBatch) /\ WF_vars(QueueReset) /\ WF_vars(QueueUnlock)
    /\ WF_vars(QueueDone)
    /\ WF_vars(DocProvision) /\ WF_vars(DocBulkDo) /\ WF_vars(DocDone)
    /\ WF_vars(HTTPSelect(1))

\* ------------------------------------------------------------------ claims
\* C1: every batch queueRoutine sends on DocumentQueueChan has at most
\* threshold documents and is never empty, whatever the threshold.
C1_BatchWithinThresholdNeverEmpty ==
    \A i \in 1..Len(flushed) : Len(flushed[i]) <= threshold /\ Len(flushed[i]) > 0

BufferIds == SeqToSet(Ids(DocumentQueue))
BatchesWith(d) == {i \in 1..Len(flushed) : d \in SeqToSet(flushed[i])}

\* C2: no assembled document is lost: every document assembled so far is the
\* one being decided on, is in the buffer, or is in exactly one flushed batch
\* (stated here for thresholds of at least 1 only).
C2_NoDocumentLost ==
    threshold >= 1 =>
        \A d \in 1..docCount :
            \/ d = queueDoc.id
            \/ d \in BufferIds
            \/ Cardinality(BatchesWith(d)) = 1

PassedProvisioning(d) ==
    \E o \in provOutcome : o[1] = d.id /\ o[2] \in {"cache hit", "exists", "created"}

\* C3: the bulk request holds exactly one index operation for each document
\* of the batch that passed provisioning (cache hit, index exists, index
\* created and acknowledged), in batch order, and none for the others.
C3_BulkRequestIsPassedDocuments ==
    docPc = "bulk" =>
        bulkRequest = SelectSeq(SubSeq(documents, 1, docIdx - 1), PassedProvisioning)

C3_Witness ==
    /\ docPc = "bulk" /\ docIdx > Len(documents)
    /\ Len(bulkRequest) >= 1 /\ Len(bulkRequest) < Len(documents)

SameKey(c1, c2) == c1.index \o c1.type = c2.index \o c2.type

\* C4 as stated: two IndexExists calls for one cache key are never in one
\* TTL window, whatever the store answered.
C4_OnePairPerWindow ==
    \A i, j \in 1..Len(storeCalls) :
        (/\ i < j
         /\ storeCalls[i].op = "IndexExists" /\ storeCalls[j].op = "IndexExists"
         /\ SameKey(storeCalls[i], storeCalls[j]))
        => storeCalls[j].at > storeCalls[i].at + CacheTTL

\* C4 amended: once the provisioning of a document has passed, no further
\* IndexExists call is issued for its cache key until CacheTTL seconds have
\* gone by.
C4_NoCallAfterPassInWindow ==
    \A i, j \in 1..Len(storeCalls) :
        (/\ i < j
         /\ storeCalls[i].passed /\ storeCalls[j].op = "IndexExists"
         /\ SameKey(storeCalls[i], storeCalls[j]))
        => storeCalls[j].at > storeCalls[i].at + CacheTTL

\* A document went through on a cache hit in the window of an earlier
\* document's passed provisioning for the same key.
C4_Witness ==
    /\ docPc = "bulk"
    /\ \E k \in 1..Len(documents), c \in SeqToSet(storeCalls) :
         /\ c.passed
         /\ c.index \o c.type = documents[k].IndexName \o documents[k].TypeName
         /\ <<documents[k].id, "cache hit">> \in provOutcome

HTTPTag(r) == [src |-> "http", id |-> r, ok |-> TRUE]

\* C5: a request at the select of HTTPCollector can always complete at once,
\* whatever the workers are doing; spans handed over are received, spans
\* dropped on the default branch are never received.
C5_HTTPNeverBlocks ==
    \A r \in 1..MaxRequests :
        /\ (Up /\ http[r].pc = "select") => ENABLED HTTPSelect(r)
        /\ http[r].pc = "select" => HTTPTag(r) \notin received
        /\ http[r].response = "default" => HTTPTag(r) \notin received
        /\ http[r].response = "SpansProcessingChan <- spans" => HTTPTag(r) \in received

C5_Witness ==
    \E r \in 1..MaxRequests :
        /\ http[r].response = "default" /\ http[r].duringFlush
        /\ queuePc = "send" /\ Mux

KafkaTags == {t \in received : t.src = "kafka"}

\* C6: an offset is committed only for a message whose spans were sent, every
\* message sent is committed or its commit is the routine's next step, and
\* that step waits for nothing.
C6_CommitIffSent ==
    /\ \A m \in committed : \E t \in KafkaTags : t.id = m
    /\ \A t \in KafkaTags : t.id \in committed \/ (kafkaPc = "commit" /\ kafkaMsg.id = t.id)
    /\ (Up /\ kafkaPc = "commit") => ENABLED KafkaCommit

\* The first message is committed while its spans are still unassembled.
C6_Witness ==
    /\ committed = {1} /\ KafkaTags = {[src |-> "kafka", id |-> 1, ok |-> TRUE]}
    /\ queuePc = "range" /\ queueIdx = 1 /\ docCount = 0
    /\ Len(queueSpans.elems) > 0

\* C7: nothing is sent to the span channel for a message that failed to
\* decode, and no worker crashes.
C7_NoSendOnDecodeFailure ==
    /\ \A t \in KafkaTags : t.ok
    /\ procState # "panic"

\* C8: once ctx is cancelled, Run returns (stated here for thresholds of at
\* least 1 only).
C8_CancelLeadsToRunReturn ==
    (threshold >= 1 /\ cancelled /\ runPc = "wait") ~> (runPc = "returned")

\* C9: while Run is waiting on its group, the queue consumer, the
\* accumulator and the persister have all been started.
C9_RunStartsAllThree ==
    runPc = "wait" =>
        queuePc # "notstarted" /\ docPc # "notstarted" /\ kafkaPc # "notstarted"

\* C10: whatever the bulk call returned, documentRoutine goes back to its
\* select, and it returns only once ctx is cancelled.
C10_PersisterSurvivesBulkFailure ==
    [][/\ (docPc = "bulk" /\ docPc' # "bulk") => docPc' = "select"
       /\ docPc' = "returned" => cancelled']_vars

\* A later batch is being handled after a bulk call that failed.
C10_Witness ==
    /\ lastBulk \in {"error", "nil response", "item failed"}
    /\ docPc = "bulk"

\* C11: the step of HTTPCollector that answers a body that failed to decode
\* with the error acknowledgment ends the request, and changes neither the
\* span channel's deliveries, the accumulator, the batch channel nor the
\* cache; the request is never delivered afterwards.
C11_DecodeFailureEnqueuesNothing ==
    [][\A r \in 1..MaxRequests :
         /\ (http[r].response # "error trace log" /\ http'[r].response = "error trace log")
            => /\ http'[r].pc = "done"
               /\ UNCHANGED <<received, queueVars, docVars, flushed>>
         /\ http[r].response = "error trace log"
            => /\ http'[r] = http[r]
               /\ HTTPTag(r) \notin received']_vars

\* A request was answered with the error body while the buffer holds a
\* document of another request.
C11_Witness ==
    \E r \in 1..MaxRequests :
        /\ http[r].response = "error trace log" /\ http[r].pc = "done"
        /\ HTTPTag(r) \notin received
        /\ Len(DocumentQueue) > 0

RECURSIVE Concat(_)
Concat(ss) == IF ss = << >> THEN << >> ELSE Head(ss) \o Concat(Tail(ss))

\* Document ids are given out in the order the accumulator assembles them.
InArrivalOrder(ids) == \A i, j \in 1..Len(ids) : i < j => ids[i] < ids[j]

\* C12: documents keep their arrival order: the flushed batches, in flush
\* order, followed by the buffer list documents in the order they were
\* assembled (looked at outside the two halves of a flush, send and reset);
\* the buffer only ever grows at its end and a batch is the buffer as it
\* stood; the persister walks the batch it was sent and its bulk request
\* keeps the batch's order.
C12_ArrivalOrderKept ==
    /\ [](queuePc # "reset" => InArrivalOrder(Concat(flushed) \o Ids(DocumentQueue)))
    /\ [](docPc = "bulk" =>
            /\ Ids(documents) = flushed[Len(flushed)]
            /\ InArrivalOrder(Ids(bulkRequest))
            /\ SeqToSet(bulkRequest) \subseteq SeqToSet(documents))
    /\ [][/\ DocumentQueue' # DocumentQueue =>
              DocumentQueue' = << >> \/ DocumentQueue' = Append(DocumentQueue, queueDoc)
          /\ flushed' # flushed => flushed' = Append(flushed, Ids(DocumentQueue))]_vars

\* A batch of two went into the bulk request whole.
C12_Witness ==
    /\ docPc = "bulk" /\ Len(documents) = 2 /\ Len(bulkRequest) = 2
    /\ Ids(bulkRequest) = flushed[Len(flushed)]

\* C13: queueRoutine never waits in the send on DocumentQueueChan with Mux
\* locked (stated here for thresholds of at least 1 only).
C13_LockNotHeldDuringSend ==
    threshold >= 1 => ~(queuePc = "send" /\ Mux)

\* C14: a document that finds the buffer not below the threshold triggers a
\* flush: the batch sent is the buffer as it stands, without the triggering
\* document; the buffer is then reset to empty and stays empty to the end of
\* that pass of the loop.  With threshold 2 and three documents assembled in
\* one call, the call ends with the one batch [D1, D2] flushed and an empty
\* buffer.
C14_FlushLeavesTriggerOut ==
    /\ [][/\ (queuePc = "lock" /\ queuePc' = "send") =>
              /\ Len(DocumentQueue) >= threshold
              /\ queueCopy' = DocumentQueue
          /\ (queuePc = "send" /\ queuePc' = "reset") =>
              /\ documents' = DocumentQueue
              /\ flushed' = Append(flushed, Ids(DocumentQueue))
              /\ queueDoc.id \notin SeqToSet(Ids(documents'))
          /\ (queuePc = "reset" /\ queuePc' # "reset") =>
              /\ DocumentQueue' = << >>
              /\ queuePc' = "unlock"
          /\ (queuePc = "unlock" /\ queuePc' # "unlock") =>
              /\ DocumentQueue' = DocumentQueue
              /\ queueDoc' = NoDoc]_vars
    /\ []((/\ threshold = 2 /\ Cardinality(received) = 1 /\ docCount = 3
           /\ queuePc \in {"select", "returned"})
          => (flushed = << <<1, 2>> >> /\ DocumentQueue = << >>))

\* The call with D1, D2, D3 and threshold 2 has ended.
C14_Witness ==
    /\ threshold = 2 /\ Cardinality(received) = 1 /\ docCount = 3
    /\ queuePc = "select"
    /\ flushed = << <<1, 2>> >> /\ DocumentQueue = << >>

\* C15: every batch the persister received gets exactly one bulk write,
\* whatever its outcome: the batches handled are as many as the bulk calls
\* made, no batch is sent twice, and the step that makes the call leaves
\* the worker at its select with the batch gone, the buffer and the batches
\* sent so far as they were.
C15_OneBulkWritePerBatch ==
    /\ [](bulkCalls = Len(flushed) - (IF docPc = "bulk" THEN 1 ELSE 0))
    /\ [](\A i, j \in 1..Len(flushed) :
            i < j => SeqToSet(flushed[i]) \cap SeqToSet(flushed[j]) = {})
    /\ [][bulkCalls' # bulkCalls =>
            /\ bulkCalls' = bulkCalls + 1
            /\ docPc = "bulk" /\ docPc' = "select"
            /\ documents' = << >> /\ bulkRequest' = << >>
            /\ UNCHANGED <<DocumentQueue, queueCopy, flushed>>]_vars

\* The one bulk write of a batch failed in transport or came back nil, and
\* the worker is at its select with none of the batch left anywhere.
C15_Witness ==
    /\ lastBulk \in {"error", "nil response"}
    /\ bulkCalls = 1 /\ Len(flushed) = 1 /\ Len(flushed[1]) > 0
    /\ docPc = "select" /\ documents = << >>
    /\ BufferIds \cap SeqToSet(flushed[1]) = {}
    /\ queuePc = "select"

\* C16: DocumentQueue changes only in a step of queueRoutine that holds Mux
\* when it is done, and Mux is held by queueRoutine alone; no step of
\* HTTPCollector or documentRoutine changes it; the batch documentRoutine
\* works on is the batch that was sent and no later step of the accumulator
\* changes it.
C16_BufferOnlyUnderMux ==
    /\ [](Mux => queuePc \in {"send", "reset", "unlock"})
    /\ [](docPc = "bulk" => Ids(documents) = flushed[Len(flushed)])
    /\ [][/\ DocumentQueue' # DocumentQueue =>
              /\ queuePc \in {"lock", "reset"} /\ queuePc' # queuePc
              /\ Mux'
              /\ UNCHANGED <<http, docVars>>
          /\ (docPc = "bulk" /\ docPc' = "bulk") => documents' = documents]_vars

\* The buffer has taken a later document while the persister works on the
\* batch flushed before.
C16_Witness ==
    /\ docPc = "bulk" /\ documents # << >>
    /\ DocumentQueue # << >>
    /\ BufferIds \cap SeqToSet(Ids(documents)) = {}
    /\ \A d \in BufferIds : \A k \in 1..Len(documents) : d > documents[k].id

\* C17: whenever a document is added to the bulk request, the store has
\* confirmed that document's own IndexName (IndexExists answered true, or
\* CreateIndex was acknowledged) within the last CacheTTL seconds.
C17_OwnIndexConfirmed ==
    [][Len(bulkRequest') > Len(bulkRequest) =>
         LET document == bulkRequest'[Len(bulkRequest')]
         IN \E c \in SeqToSet(storeCalls') :
                /\ c.passed
                /\ c.index = document.IndexName
                /\ now <= c.at + CacheTTL]_vars

\* C18: with a threshold of at least 1 every batch flushed holds exactly
\* threshold documents and the buffer never holds more; a flush happens only
\* when a further document finds the buffer full, and neither the passing
\* of time, cancellation nor the return of queueRoutine flushes or empties
\* the buffer.
C18_FullBatchesOnly ==
    /\ [](threshold >= 1 =>
            /\ \A i \in 1..Len(flushed) : Len(flushed[i]) = threshold
            /\ Len(DocumentQueue) <= threshold)
    /\ [][threshold >= 1 =>
            /\ flushed' # flushed =>
                 /\ Len(DocumentQueue) = threshold
                 /\ queueDoc # NoDoc /\ queueDoc.id \notin BufferIds
            /\ (cancelled' # cancelled \/ now' # now \/ queuePc' = "returned") =>
                 UNCHANGED <<flushed, DocumentQueue>>]_vars

\* queueRoutine has returned on cancellation, after time has passed, with a
\* buffer short of the threshold that was never flushed.
C18_Witness ==
    /\ threshold = 2 /\ Len(DocumentQueue) = 1
    /\ cancelled /\ queuePc = "returned" /\ now > 0
    /\ flushed = << >>

FailedOutcomes == {"exists error", "create error", "create not acknowledged"}

\* C19: the cache changes only by expiry or by marking present the key of
\* the document at hand after IndexExists answered true or CreateIndex was
\* acknowledged for it; a step in which the provisioning of a document fails
\* leaves the cache as it was.
C19_CacheSetOnlyOnSuccess ==
    [][/\ Cache' # Cache =>
          \/ now' # now /\ Cache' \subseteq Cache
          \/ /\ docPc = "bulk" /\ docIdx <= Len(documents)
             /\ LET document == documents[docIdx]
                IN /\ Cache' = CacheSet(CacheKey(document))
                   /\ \/ <<document.id, "exists">> \in provOutcome'
                      \/ <<document.id, "created">> \in provOutcome'
       /\ \A o \in provOutcome' \ provOutcome :
            o[2] \in FailedOutcomes => Cache' = Cache]_vars

\* In one batch the provisioning of one document failed and its key is not
\* in the cache, and that of another passed and its key is.
C19_Witness ==
    /\ docPc = "bulk"
    /\ \E j, k \in 1..Len(documents) :
         /\ \E o \in FailedOutcomes : <<documents[j].id, o>> \in provOutcome
         /\ \A e \in Cache : e.key # CacheKey(documents[j])
         /\ <<documents[k].id, "created">> \in provOutcome
         /\ \E e \in Cache : e.key = CacheKey(documents[k])

\* C20: as long as ctx is not cancelled the pipeline does not deadlock: a
\* batch queueRoutine stands to send is received by documentRoutine,
\* queueRoutine then releases Mux and comes back to its select, and
\* documentRoutine comes back to its select from every batch.
C20_FlushCompletes ==
    /\ (queuePc = "send") ~> (queuePc = "reset" \/ cancelled)
    /\ (queuePc = "reset") ~> ((queuePc = "select" /\ ~Mux) \/ cancelled)
    /\ (docPc = "bulk") ~> (docPc = "select" \/ cancelled)

\* A batch was flushed and written, and both workers are back at their
\* selects with ctx not cancelled.
C20_Witness ==
    /\ ~cancelled
    /\ Len(flushed) >= 1 /\ Len(flushed[1]) > 0 /\ bulkCalls = Len(flushed)
    /\ queuePc = "select" /\ ~Mux
    /\ docPc = "select"

====
